---- MODULE Spec2Model ----
(***************************************************************************)
(* Model of the Google Drive download client: drive_api_tools.py           *)
(* (get_api_service, query_metadata, download_metadata) and download.py    *)
(* (Download.download_file, download_files, listdir_cloud_folder).         *)
(*                                                                         *)
(* The program is single threaded.  get_api_service is one atomic step     *)
(* whose collaborator outcomes (refresh, interactive flow) are chosen by   *)
(* the environment; the pagination loop and the download loops advance     *)
(* one remote request at a time, so that a request can fail between steps. *)
(***************************************************************************)
EXTENDS Integers, Sequences, FiniteSets, TLC

(* ------------------------------ bounds -------------------------------- *)
MaxClock == 2       \* the clock runs over 0..MaxClock
MaxTok == 4         \* access tokens handed out by the identity provider
Lifetime == 1       \* ticks for which a fresh access token stays unexpired
MaxRemote == 4      \* objects in the remote folder
MaxItems == 3       \* objects the caller may ask download_file(s) for
MaxPageSize == 3    \* page sizes the remote store may use
MaxBatch == 3       \* longest list handed to download_files
ChunkCount == 2     \* chunks a remote object is served in

(* ----------------------------- constants ------------------------------ *)
Absent == [absent |-> TRUE]      \* no file at a path / creds = None
NoService == [service |-> FALSE] \* no Download object has been constructed
NoExpiry == -1              \* a credential without expiry field
NoToken == -1               \* page_token = None

VARIABLES
    now,         \* wall clock
    tokenFile,   \* content of config.TOKEN_FILE, or Absent
    service,     \* credential bound into Download.service, or NoService
    nextTok,     \* next access token the identity provider hands out
    auth,        \* record of the last get_api_service call
    remote,      \* items of the remote folder, in the store's order
    pageSize,    \* page size the store uses for the listing in progress
    qargs,       \* query_metadata's arguments query and fields
    lpc,         \* position in query_metadata: "idle" | "request"
    files,       \* query_metadata's local accumulator
    page_token,  \* query_metadata's local page_token
    requests,    \* page requests sent so far by the listing in progress
    lstatus,     \* "none" | "running" | "returned" | "raised"
    listing,     \* value returned by the last listdir_cloud_folder
    fs,          \* local file system: path -> Absent or file content
    mode,        \* "none" | "single" | "batch": the call in progress/last
    batch,       \* download_files' argument files
    save_folder, \* download_files' argument save_folder
    i,           \* index of the current item of the for loop (1-based)
    cur,         \* current download_file arguments [id, path]
    dpc,         \* "idle" | "loop" | "check" | "open" | "chunks"
    status,      \* "none" | "running" | "returned" | "raised"
    outcomes,    \* messages printed by download_file in this call
    found,       \* what os.path.isfile saw at cur.path (Absent or a file)
    taskCalls,   \* remote calls issued by the current download_file
    netCalls,    \* [get_media, next_chunk] counts of the call in progress
    prev,        \* when this call repeats the previous one: what that left
    invoked      \* download_file calls made so far by the call in progress

authVars == <<now, tokenFile, service, nextTok, auth>>
listVars == <<remote, pageSize, qargs, lpc, files, page_token, requests,
              lstatus, listing>>
dlVars == <<fs, mode, batch, save_folder, i, cur, dpc, status, outcomes,
            found, taskCalls, netCalls, prev, invoked>>
vars == <<authVars, listVars, dlVars>>

(* ======================= credentials (get_api_service) ================= *)

\* creds.expired: an expiry is set and has been reached
Expired(creds, t) == creds.expiry # NoExpiry /\ t >= creds.expiry

\* creds.valid: an access token is present and it is not expired
Valid(creds, t) == creds.token # 0 /\ ~Expired(creds, t)

\* line 30: not creds or not creds.valid
NeedsAuthMut(creds, t) == creds = Absent
NeedsAuthAlwaysMut(creds, t) == TRUE
NeedsAuth(creds, t) == creds = Absent \/ ~Valid(creds, t)

\* line 31: creds and creds.expired and creds.refresh_token
CanRefreshMut(creds, t) == FALSE
CanRefresh(creds, t) ==
    creds # Absent /\ Expired(creds, t) /\ creds.refresh_token

\* line 32: creds.refresh(Request()) on success: new access token, new expiry
Refresh(creds, tok, t) ==
    [token |-> tok, expiry |-> t + Lifetime, refresh_token |-> TRUE]

\* lines 34-37: flow.run_local_server on success: a brand-new credential
RunLocalServer(tok, t, withRefresh) ==
    [token |-> tok, expiry |-> t + Lifetime, refresh_token |-> withRefresh]

\* lines 40-41: the token file after token.write(creds.to_json())
PersistMut(file, creds) == file
Persist(file, creds) == creds

\* lines 23-46 as a function of the token file, the clock and the
\* collaborators' outcomes.  raised = an exception left get_api_service.
ObtainMut(file, t, tok, refreshOk, flowOk, withRefresh) ==
    LET creds0 == file IN
    IF ~NeedsAuth(creds0, t)
    THEN [creds |-> creds0, file |-> file, refreshCalls |-> 0,
          flowCalls |-> 0, wrote |-> FALSE, raised |-> FALSE]
    ELSE IF CanRefresh(creds0, t)
    THEN IF refreshOk
         THEN [creds |-> Refresh(creds0, tok, t),
               file |-> Persist(file, Refresh(creds0, tok, t)),
               refreshCalls |-> 1, flowCalls |-> 0, wrote |-> TRUE,
               raised |-> FALSE]
         ELSE [creds |-> Absent, file |-> file, refreshCalls |-> 1,
               flowCalls |-> 0, wrote |-> FALSE, raised |-> TRUE]
    ELSE IF flowOk
    THEN [creds |-> RunLocalServer(tok, t, withRefresh),
          file |-> file,
          refreshCalls |-> 0, flowCalls |-> 1, wrote |-> FALSE,
          raised |-> FALSE]
    ELSE [creds |-> Absent, file |-> file, refreshCalls |-> 0,
          flowCalls |-> 1, wrote |-> FALSE, raised |-> TRUE]
Obtain(file, t, tok, refreshOk, flowOk, withRefresh) ==
    LET creds0 == file IN                                 \* lines 23-27
    IF ~NeedsAuth(creds0, t)                              \* line 30
    THEN [creds |-> creds0, file |-> file, refreshCalls |-> 0,
          flowCalls |-> 0, wrote |-> FALSE, raised |-> FALSE]
    ELSE IF CanRefresh(creds0, t)                         \* line 31
    THEN IF refreshOk                                     \* line 32
         THEN [creds |-> Refresh(creds0, tok, t),
               file |-> Persist(file, Refresh(creds0, tok, t)),
               refreshCalls |-> 1, flowCalls |-> 0, wrote |-> TRUE,
               raised |-> FALSE]
         ELSE [creds |-> Absent, file |-> file, refreshCalls |-> 1,
               flowCalls |-> 0, wrote |-> FALSE, raised |-> TRUE]
    ELSE IF flowOk                                        \* lines 34-37
    THEN [creds |-> RunLocalServer(tok, t, withRefresh),
          file |-> Persist(file, RunLocalServer(tok, t, withRefresh)),
          refreshCalls |-> 0, flowCalls |-> 1, wrote |-> TRUE,
          raised |-> FALSE]
    ELSE [creds |-> Absent, file |-> file, refreshCalls |-> 0,
          flowCalls |-> 1, wrote |-> FALSE, raised |-> TRUE]

NoAuthCall ==
    [called |-> FALSE, loaded |-> Absent, refreshOk |-> FALSE,
     flowOk |-> FALSE, refreshCalls |-> 0, flowCalls |-> 0,
     wrote |-> FALSE, result |-> "none", at |-> 0]

\* Download.__init__ (download.py 19-24) -> get_api_service (23-46)
GetApiService(refreshOk, flowOk, withRefresh) ==
    /\ nextTok <= MaxTok
    /\ LET r == Obtain(tokenFile, now, nextTok, refreshOk, flowOk,
                       withRefresh)
       IN /\ tokenFile' = r.file
          /\ service' = IF r.raised THEN service ELSE r.creds
          /\ nextTok' = IF r.wrote THEN nextTok + 1 ELSE nextTok
          /\ auth' = [called |-> TRUE, loaded |-> tokenFile,
                      refreshOk |-> refreshOk, flowOk |-> flowOk,
                      refreshCalls |-> r.refreshCalls,
                      flowCalls |-> r.flowCalls, wrote |-> r.wrote,
                      result |-> IF r.raised THEN "raised" ELSE "returned",
                      at |-> now]
    /\ UNCHANGED <<now, listVars, dlVars>>

Construct == \E refreshOk, flowOk, withRefresh \in BOOLEAN :
    GetApiService(refreshOk, flowOk, withRefresh)

\* time passes between calls; access tokens expire
Tick ==
    /\ now < MaxClock
    /\ now' = now + 1
    /\ UNCHANGED <<tokenFile, service, nextTok, auth, listVars, dlVars>>

(* ================= enumeration (query_metadata) ======================== *)

Min(a, b) == IF a < b THEN a ELSE b

\* the name the remote store gives object id: ids are unique, and objects
\* 1 and 2, 3 and 4, ... share a name
NameOf(id) == (id + 1) \div 2
Item(id) == [id |-> id, name |-> NameOf(id)]
Items == {Item(id) : id \in 1..MaxItems}

\* lines 79-84: the store's answer to files().list(pageToken=token).execute()
\* A token is the offset at which the next page starts.
ServePage(store, token, size) ==
    LET off == IF token = NoToken THEN 0 ELSE token
        end == Min(off + size, Len(store))
    IN [files |-> SubSeq(store, off + 1, end),
        nextPageToken |-> IF end < Len(store) THEN end ELSE NoToken]

\* line 86: files.extend(response.get('files', []))
ExtendMut(acc, page) == page
ExtendMergeMut(acc, page) ==
    LET NewName(item) == \A k \in DOMAIN acc : acc[k].name # item.name
    IN acc \o SelectSeq(page, NewName)
Extend(acc, page) == acc \o page

\* line 87: page_token = response.get('nextPageToken', None)
NextPageTokenMut(response) == NoToken
NextPageTokenSkipMut(response) ==
    IF response.nextPageToken = NoToken
    THEN NoToken ELSE response.nextPageToken + 1
NextPageToken(response) == response.nextPageToken

\* download.py 76: query = f"'{cloud_folder_id}' in parents"
Query(cloud_folder_id) == <<cloud_folder_id, "in parents">>

\* download.py 77: the arguments listdir_cloud_folder hands to query_metadata
QueryArgs(cloud_folder_id) ==
    [query |-> Query(cloud_folder_id), fields |-> "id, name"]

\* lines 79-84: the request files().list(q, spaces, fields, pageToken)
PageRequest(args, token) ==
    [q |-> args.query, fields |-> args.fields, pageToken |-> token]

\* the folder the caller lists
CloudFolder == "F"

ListdirCloudFolderMut(size) ==
    /\ lpc = "idle" /\ dpc = "idle"
    /\ lpc' = "request"
    /\ pageSize' = size
    /\ qargs' = QueryArgs(CloudFolder)
    /\ files' = <<>>
    /\ page_token' = NoToken
    /\ requests' = <<>>
    /\ lstatus' = "running"
    /\ UNCHANGED <<remote, listing, authVars, dlVars>>
\* download.py 63-77 -> drive_api_tools.py 76-77: a listing starts
ListdirCloudFolder(size) ==
    /\ service # NoService
    /\ lpc = "idle" /\ dpc = "idle"
    /\ lpc' = "request"
    /\ pageSize' = size
    /\ qargs' = QueryArgs(CloudFolder)
    /\ files' = <<>>
    /\ page_token' = NoToken
    /\ requests' = <<>>
    /\ lstatus' = "running"
    /\ UNCHANGED <<remote, listing, authVars, dlVars>>

StartList == \E size \in 1..MaxPageSize : ListdirCloudFolder(size)

ListPageMut ==
    /\ lpc = "request"
    /\ LET response == ServePage(remote, page_token, pageSize)
           token == NextPageToken(response)
       IN /\ files' = Extend(files, response.files)
          /\ page_token' = token
          /\ requests' = Append(requests, PageRequest(qargs, page_token))
          /\ IF page_token = NoToken /\ requests # <<>>
             THEN /\ lpc' = "idle"
                  /\ lstatus' = "returned"
                  /\ listing' = Extend(files, response.files)
             ELSE /\ lpc' = "request"
                  /\ UNCHANGED <<lstatus, listing>>
    /\ UNCHANGED <<remote, pageSize, qargs, authVars, dlVars>>
\* lines 78-91 (one iteration) and download.py 78: a page request succeeds
ListPage ==
    /\ lpc = "request"
    /\ LET response == ServePage(remote, page_token, pageSize)
           token == NextPageToken(response)
       IN /\ files' = Extend(files, response.files)
          /\ page_token' = token
          /\ requests' = Append(requests, PageRequest(qargs, page_token))
          /\ IF token = NoToken
             THEN /\ lpc' = "idle"
                  /\ lstatus' = "returned"
                  /\ listing' = Extend(files, response.files)
             ELSE /\ lpc' = "request"
                  /\ UNCHANGED <<lstatus, listing>>
    /\ UNCHANGED <<remote, pageSize, qargs, authVars, dlVars>>

\* lines 79-84: execute() raises; the exception leaves query_metadata
ListPageFails ==
    /\ lpc = "request"
    /\ lpc' = "idle"
    /\ lstatus' = "raised"
    /\ requests' = Append(requests, PageRequest(qargs, page_token))
    /\ UNCHANGED <<remote, pageSize, qargs, files, page_token, listing,
                   authVars, dlVars>>

(* ================= transfers (download_file, download_files) =========== *)

Folders == {"dest"}
Names == {NameOf(id) : id \in 1..MaxItems}

\* download.py 60: os.path.join(save_folder, basename)
JoinMut(folder, name) == <<folder, 1>>
Join(folder, name) == <<folder, name>>
Paths == {Join(f, n) : f \in Folders, n \in Names}

\* a local file: the object it was written from (0: it was there before the
\* program ran) and the number of chunks it holds
PreFile == [src |-> 0, len |-> 0]
Complete(id) == [src |-> id, len |-> ChunkCount]

\* download.py 38: os.path.isfile(save_file)
IsFileMut(disk, path) == FALSE
IsFile(disk, path) == disk[path] # Absent

\* the call in progress does not repeat the call before it
NoPrev == [outcomes |-> <<>>, fs |-> <<>>, calls |-> <<>>]

\* no download_file has been entered in the call in progress
NoTask == [id |-> 0, path |-> <<>>]

Skipped == "File already exists"      \* download.py 43
Downloaded == "Download successful"   \* download.py 41

\* lists the caller may hand to download_files: items of a listing, each
\* object at most once, in any order
Batches ==
    {list \in UNION {[1..n -> Items] : n \in 0..MaxBatch} :
        \A j, k \in DOMAIN list : j # k => list[j].id # list[k].id}

\* download.py 26-37: download_file is entered with (cloud_file_id, save_file)
Enter(id, path, sofar) ==
    /\ cur' = [id |-> id, path |-> path]
    /\ invoked' = Append(sofar, [id |-> id, path |-> path])
    /\ dpc' = "check"
    /\ found' = Absent
    /\ taskCalls' = 0

\* download_file returns to its caller: the for loop of download_files
\* (download.py 58) or the caller of a single download_file
Return ==
    IF mode = "batch"
    THEN /\ dpc' = "loop"
         /\ i' = i + 1
         /\ UNCHANGED status
    ELSE /\ dpc' = "idle"
         /\ status' = "returned"
         /\ UNCHANGED i

\* an exception leaves download_metadata; neither download_file nor
\* download_files catches it, so it ends the call in progress
Raise ==
    /\ dpc' = "idle"
    /\ status' = "raised"
    /\ UNCHANGED i

\* a caller invokes download_file(cloud_file_id, save_file) directly
DownloadFile(id, path) ==
    /\ service # NoService
    /\ dpc = "idle" /\ lpc = "idle"
    /\ mode' = "single"
    /\ status' = "running"
    /\ outcomes' = <<>>
    /\ netCalls' = [get_media |-> 0, next_chunk |-> 0]
    /\ prev' =
         IF mode = "single" /\ status = "raised"
            /\ cur = [id |-> id, path |-> path]
         THEN [outcomes |-> outcomes, fs |-> fs, calls |-> netCalls]
         ELSE NoPrev
    /\ Enter(id, path, <<>>)
    /\ batch' = <<>>
    /\ i' = 1
    /\ UNCHANGED <<fs, save_folder, authVars, listVars>>

CallDownloadFile == \E id \in 1..MaxItems, path \in Paths :
    DownloadFile(id, path)

\* download.py 45-57: a caller invokes download_files(files, save_folder)
DownloadFiles(list, folder) ==
    /\ service # NoService
    /\ dpc = "idle" /\ lpc = "idle"
    /\ mode' = "batch"
    /\ batch' = list
    /\ save_folder' = folder
    /\ i' = 1
    /\ dpc' = "loop"
    /\ status' = "running"
    /\ outcomes' = <<>>
    /\ netCalls' = [get_media |-> 0, next_chunk |-> 0]
    /\ prev' =
         IF mode = "batch" /\ status = "returned" /\ batch = list
            /\ save_folder = folder
         THEN [outcomes |-> outcomes, fs |-> fs, calls |-> netCalls]
         ELSE NoPrev
    /\ found' = Absent
    /\ taskCalls' = 0
    /\ cur' = NoTask
    /\ invoked' = <<>>
    /\ UNCHANGED <<fs, authVars, listVars>>

CallDownloadFiles == \E list \in Batches, folder \in Folders :
    DownloadFiles(list, folder)

\* download.py 58-61: the for loop takes the next item, or is exhausted
LoopNext ==
    /\ dpc = "loop"
    /\ IF i <= Len(batch)
       THEN /\ Enter(batch[i].id, Join(save_folder, batch[i].name), invoked)
            /\ UNCHANGED <<status, i>>
       ELSE /\ dpc' = "idle"
            /\ status' = "returned"
            /\ UNCHANGED <<cur, found, taskCalls, i, invoked>>
    /\ UNCHANGED <<fs, mode, batch, save_folder, outcomes, netCalls, prev,
                   authVars, listVars>>

CheckExistsMut ==
    /\ dpc = "check"
    /\ found' = fs[cur.path]
    /\ IF ~IsFile(fs, cur.path)
       THEN /\ outcomes' = Append(outcomes, Skipped)
            /\ Return
       ELSE /\ dpc' = "open"
            /\ UNCHANGED <<outcomes, status, i>>
    /\ UNCHANGED <<fs, mode, batch, save_folder, cur, taskCalls, netCalls,
                   prev, invoked, authVars, listVars>>
\* download.py 38, 42-43: the existence check and the skip branch
CheckExists ==
    /\ dpc = "check"
    /\ found' = fs[cur.path]
    /\ IF IsFile(fs, cur.path)
       THEN /\ outcomes' = Append(outcomes, Skipped)
            /\ Return
       ELSE /\ dpc' = "open"
            /\ UNCHANGED <<outcomes, status, i>>
    /\ UNCHANGED <<fs, mode, batch, save_folder, cur, taskCalls, netCalls,
                   prev, invoked, authVars, listVars>>

\* drive_api_tools.py 166-170: get_media builds the request, open(.., 'wb')
\* creates the empty file
OpenFile ==
    /\ dpc = "open"
    /\ fs' = [fs EXCEPT ![cur.path] = [src |-> cur.id, len |-> 0]]
    /\ dpc' = "chunks"
    /\ taskCalls' = taskCalls + 1
    /\ netCalls' = [netCalls EXCEPT !.get_media = @ + 1]
    /\ UNCHANGED <<mode, batch, save_folder, i, cur, status, outcomes, found,
                   prev, invoked, authVars, listVars>>

\* drive_api_tools.py 168: open raises (permission, missing folder, ...)
OpenFails ==
    /\ dpc = "open"
    /\ taskCalls' = taskCalls + 1
    /\ netCalls' = [netCalls EXCEPT !.get_media = @ + 1]
    /\ Raise
    /\ UNCHANGED <<fs, mode, batch, save_folder, cur, outcomes, found, prev,
                   invoked, authVars, listVars>>

\* drive_api_tools.py 171-172, download.py 41: next_chunk writes one chunk;
\* after the last one the file is closed and download_file reports success
NextChunk ==
    /\ dpc = "chunks"
    /\ fs' = [fs EXCEPT ![cur.path].len = @ + 1]
    /\ taskCalls' = taskCalls + 1
    /\ netCalls' = [netCalls EXCEPT !.next_chunk = @ + 1]
    /\ IF fs[cur.path].len + 1 = ChunkCount
       THEN /\ outcomes' = Append(outcomes, Downloaded)
            /\ Return
       ELSE UNCHANGED <<dpc, outcomes, status, i>>
    /\ UNCHANGED <<mode, batch, save_folder, cur, found, prev,
                   invoked, authVars, listVars>>

\* drive_api_tools.py 172: next_chunk raises (HttpError 404, transport
\* error); the with block closes the file and leaves it where it is
NextChunkFails ==
    /\ dpc = "chunks"
    /\ taskCalls' = taskCalls + 1
    /\ netCalls' = [netCalls EXCEPT !.next_chunk = @ + 1]
    /\ Raise
    /\ UNCHANGED <<fs, mode, batch, save_folder, cur, outcomes, found, prev,
                   invoked, authVars, listVars>>

(* ========================= specifications ============================= *)

\* token files a first run may find
InitialCreds ==
    [token : 0..1, expiry : {NoExpiry} \cup 0..MaxClock,
     refresh_token : BOOLEAN]

\* a credential a finished get_api_service has left behind
SomeCreds == [token |-> 1, expiry |-> NoExpiry, refresh_token |-> TRUE]

AuthIdle ==
    /\ now = 0
    /\ nextTok = 2
    /\ auth = NoAuthCall

ListIdle ==
    /\ pageSize = 1
    /\ qargs = QueryArgs(CloudFolder)
    /\ lpc = "idle"
    /\ files = <<>>
    /\ page_token = NoToken
    /\ requests = <<>>
    /\ lstatus = "none"
    /\ listing = <<>>

DlIdle ==
    /\ mode = "none"
    /\ batch = <<>>
    /\ save_folder = "dest"
    /\ i = 1
    /\ cur = NoTask
    /\ dpc = "idle"
    /\ status = "none"
    /\ outcomes = <<>>
    /\ found = Absent
    /\ taskCalls = 0
    /\ netCalls = [get_media |-> 0, next_chunk |-> 0]
    /\ prev = NoPrev
    /\ invoked = <<>>

\* the remote folder holds the first n objects
Remotes == {[k \in 1..n |-> Item(k)] : n \in 0..MaxRemote}

\* credentials: the program starts with any token file, or none
InitAuth ==
    /\ AuthIdle
    /\ tokenFile \in {Absent} \cup InitialCreds
    /\ service = NoService
    /\ remote = [k \in 1..MaxRemote |-> Item(k)]
    /\ ListIdle
    /\ fs = [p \in Paths |-> Absent]
    /\ DlIdle
NextAuth == Construct \/ Tick
SpecAuth == InitAuth /\ [][NextAuth]_vars

\* enumeration: a Download object exists, the folder holds 0..MaxRemote items
InitList ==
    /\ AuthIdle
    /\ tokenFile = SomeCreds
    /\ service = SomeCreds
    /\ remote \in Remotes
    /\ ListIdle
    /\ fs = [p \in Paths |-> Absent]
    /\ DlIdle
NextList == StartList \/ ListPage \/ ListPageFails
SpecList == InitList /\ [][NextList]_vars

\* execute() is a blocking call that comes back: a pending page request is
\* eventually answered (or fails)
SpecListFair == SpecList /\ WF_vars(ListPage)

\* transfers: a Download object exists, some paths are already occupied
InitDl ==
    /\ AuthIdle
    /\ tokenFile = SomeCreds
    /\ service = SomeCreds
    /\ remote = [k \in 1..MaxRemote |-> Item(k)]
    /\ ListIdle
    /\ fs \in [Paths -> {Absent, PreFile}]
    /\ DlIdle
NextDl ==
    \/ CallDownloadFile
    \/ CallDownloadFiles
    \/ LoopNext
    \/ CheckExists
    \/ OpenFile
    \/ OpenFails
    \/ NextChunk
    \/ NextChunkFails
SpecDl == InitDl /\ [][NextDl]_vars

\* the whole program
Init ==
    /\ AuthIdle
    /\ tokenFile \in {Absent} \cup InitialCreds
    /\ service = NoService
    /\ remote \in Remotes
    /\ ListIdle
    /\ fs \in [Paths -> {Absent, PreFile}]
    /\ DlIdle
Next == NextAuth \/ NextList \/ NextDl
Spec == Init /\ [][Next]_vars

\* download.py 82-84 continued as its docstrings intend: the listing that
\* listdir_cloud_folder returned is handed to download_files
DownloadListing ==
    /\ lstatus = "returned"
    /\ \E folder \in Folders : DownloadFiles(listing, folder)

\* one run of the program: construct the Download object, list the folder,
\* download the listing into an empty destination folder
InitRun ==
    /\ AuthIdle
    /\ tokenFile \in {Absent} \cup InitialCreds
    /\ service = NoService
    /\ remote = [k \in 1..MaxItems |-> Item(k)]
    /\ ListIdle
    /\ fs = [p \in Paths |-> Absent]
    /\ DlIdle
NextRun ==
    \/ Construct
    \/ StartList
    \/ ListPage
    \/ ListPageFails
    \/ DownloadListing
    \/ LoopNext
    \/ CheckExists
    \/ OpenFile
    \/ OpenFails
    \/ NextChunk
    \/ NextChunkFails
SpecRun == InitRun /\ [][NextRun]_vars

(* ============================== claims ================================ *)

Last(seq) == seq[Len(seq)]
Finished == dpc = "idle" /\ status \in {"returned", "raised"}

\* C1 - idempotent skip / no-clobber: when download_file finds a regular
\* file at save_file, it issues no remote call (neither get_media nor
\* next_chunk), reports the skip, has returned, and the file is unchanged.
C1_SkipNoClobber ==
    found # Absent =>
        /\ taskCalls = 0
        /\ dpc \in {"idle", "loop"}
        /\ outcomes # <<>> /\ Last(outcomes) = Skipped
        /\ fs[cur.path] = found
C1_Witness ==
    /\ mode = "single" /\ status = "returned"
    /\ found = PreFile /\ fs[cur.path] = PreFile

\* C2 - pagination completeness: a returned listing holds exactly the items
\* of the remote folder, each once, whatever the page size and the number
\* of pages.
C2_PaginationComplete ==
    lstatus = "returned" =>
        /\ Len(listing) = Len(remote)
        /\ {listing[k] : k \in DOMAIN listing}
             = {remote[k] : k \in DOMAIN remote}
        /\ \A j, k \in DOMAIN listing : j # k => listing[j] # listing[k]
C2_Witness ==
    /\ lstatus = "returned"
    /\ Len(requests) > 1
    /\ Len(listing) = MaxRemote

\* C3 - per-item isolation: when a download_files call has ended, it ended
\* normally and reported one outcome per item of its list, whatever
\* happened to single items.
C3_PerItemIsolation ==
    (mode = "batch" /\ Finished) =>
        /\ status = "returned"
        /\ Len(outcomes) = Len(batch)

\* C4 - no partial file on failure: when a call has ended, a failed
\* download has left no file at its destination, and every file the program
\* created is the complete remote object.
C4_NoPartialFile ==
    Finished =>
        /\ (status = "raised" => fs[cur.path] = Absent)
        /\ \A p \in Paths :
             (fs[p] # Absent /\ fs[p].src # 0) => fs[p] = Complete(fs[p].src)

\* C5 - credential refresh: a call that loaded an expired credential with a
\* refresh token made exactly one refresh call and never ran the
\* interactive flow; when it returned, the token file holds the refreshed
\* credential (new access token, valid, refresh token kept) and the
\* returned client is built on it.
LoadedRefreshable ==
    /\ auth.called
    /\ auth.loaded # Absent
    /\ Expired(auth.loaded, auth.at)
    /\ auth.loaded.refresh_token
C5_CredentialRefresh ==
    LoadedRefreshable =>
        /\ auth.refreshCalls = 1
        /\ auth.flowCalls = 0
        /\ auth.result = "returned" =>
             /\ auth.wrote
             /\ tokenFile = service
             /\ service.token \notin {0, auth.loaded.token}
             /\ service.expiry > auth.at
             /\ service.refresh_token
C5_Witness ==
    /\ LoadedRefreshable
    /\ auth.result = "returned"
    /\ tokenFile # auth.loaded

\* C6 - credential bootstrap: a call that found no token file ran the
\* interactive flow exactly once and never called refresh; when it
\* returned, the new credential is in the token file.
C6_CredentialBootstrap ==
    (auth.called /\ auth.loaded = Absent) =>
        /\ auth.flowCalls = 1
        /\ auth.refreshCalls = 0
        /\ auth.result = "returned" =>
             /\ auth.wrote
             /\ tokenFile # Absent
             /\ tokenFile = service
             /\ service.token # 0
C6_Witness ==
    /\ auth.called /\ auth.loaded = Absent
    /\ auth.result = "returned"
    /\ tokenFile # Absent

\* C7 - refresh-failure escalation: a call whose refresh of an expired
\* credential failed, while interactive authorization was available and
\* would succeed, still returned a credential.
C7_RefreshEscalates ==
    (LoadedRefreshable /\ ~auth.refreshOk /\ auth.flowOk) =>
        auth.result = "returned"

\* C8 - validity at return: whenever get_api_service returned, the
\* credential bound into the client had an access token and was not
\* expired at the time of the return.
C8_ValidAtReturn ==
    auth.result = "returned" =>
        /\ service # NoService
        /\ service.token # 0
        /\ (service.expiry = NoExpiry \/ auth.at < service.expiry)
C8_Witness ==
    /\ auth.result = "returned"
    /\ ~auth.wrote
    /\ auth.loaded.expiry # NoExpiry
    /\ auth.at > 0

\* C9 - persist on change: after a call that refreshed or newly obtained
\* the credential returned, the token file holds exactly the returned
\* credential; and the token file never holds an older access token than
\* the credential in memory.
C9_PersistOnChange ==
    /\ (auth.result = "returned" /\ auth.refreshCalls + auth.flowCalls > 0)
         => tokenFile = service
    /\ service # NoService =>
         (tokenFile # Absent /\ tokenFile.token >= service.token)
C9_Witness ==
    /\ auth.result = "returned"
    /\ auth.flowCalls = 1
    /\ auth.loaded # Absent
    /\ tokenFile = service

\* C10 - re-run idempotence: when download_files is run again with the same
\* arguments right after a run that downloaded every item, the second run
\* issues no remote call, skips every item, does not fail, and leaves every
\* file as it was.
RerunOfFullDownload ==
    /\ mode = "batch"
    /\ prev # NoPrev
    /\ Len(prev.outcomes) = Len(batch)
    /\ \A k \in DOMAIN prev.outcomes : prev.outcomes[k] = Downloaded
C10_RerunIdempotent ==
    RerunOfFullDownload =>
        /\ netCalls = [get_media |-> 0, next_chunk |-> 0]
        /\ fs = prev.fs
        /\ \A k \in DOMAIN outcomes : outcomes[k] = Skipped
        /\ status # "raised"
        /\ status = "returned" => Len(outcomes) = Len(batch)
C10_Witness ==
    /\ RerunOfFullDownload
    /\ Len(batch) >= 2
    /\ status = "returned"
    /\ Len(outcomes) = Len(batch)

\* C11 - no partial listing: query_metadata hands a listing to its caller
\* only in the step in which a response without continuation token
\* arrives, and then it is every page gathered; a call whose page request
\* fails hands over nothing, whatever it has gathered so far.
C11_NoPartialListing ==
    [][ /\ (lstatus # "returned" /\ lstatus' = "returned") =>
             /\ lpc = "request"
             /\ ServePage(remote, page_token, pageSize).nextPageToken
                  = NoToken
             /\ listing'
                  = files \o ServePage(remote, page_token, pageSize).files
        /\ lstatus' # "returned" => listing' = listing
      ]_vars
C11_Witness ==
    /\ lstatus = "raised"
    /\ Len(requests) > 1
    /\ files # <<>>
    /\ listing # files

\* C12 - auth failure is fatal before any transfer: while get_api_service
\* has failed and no Download object exists, no page request and no
\* download call has been issued and no file has been created.
AuthFailedNoObject ==
    /\ auth.called
    /\ auth.result = "raised"
    /\ service = NoService
C12_AuthFailureFatal ==
    AuthFailedNoObject =>
        /\ lstatus = "none" /\ lpc = "idle" /\ requests = <<>>
        /\ mode = "none" /\ status = "none" /\ dpc = "idle"
        /\ invoked = <<>>
        /\ netCalls = [get_media |-> 0, next_chunk |-> 0]
        /\ \A p \in Paths : fs[p] \in {Absent, PreFile}
C12_Witness ==
    /\ AuthFailedNoObject
    /\ auth.refreshCalls + auth.flowCalls = 1
    /\ tokenFile = auth.loaded

\* C13 - retry pass over failed items: when download_file is called again
\* with the arguments of a call that just ended in a remote failure, the
\* second call is not skipped: it issues the remote download again, and if
\* it returns, the complete object is at the destination.
RetryAfterRemoteFailure ==
    /\ mode = "single"
    /\ prev # NoPrev
    /\ prev.calls.next_chunk > 0
C13_RetryDownloadsAgain ==
    (RetryAfterRemoteFailure /\ Finished) =>
        /\ netCalls.get_media = 1
        /\ \A k \in DOMAIN outcomes : outcomes[k] # Skipped
        /\ status = "returned" => fs[cur.path] = Complete(cur.id)

\* C14 - listing-order processing: the download_file calls of a
\* download_files call are, in order, the items of its list, each with the
\* item's id and the path join(save_folder, name); a call starts only after
\* the one before it has reported its outcome; and when download_files has
\* ended, every item of the list has had its call.
InTask == dpc \in {"check", "open", "chunks"}
C14_ListingOrder ==
    mode = "batch" =>
        /\ Len(invoked) <= Len(batch)
        /\ \A k \in DOMAIN invoked :
             invoked[k] = [id |-> batch[k].id,
                           path |-> <<save_folder, batch[k].name>>]
        /\ InTask => Len(outcomes) = Len(invoked) - 1
        /\ Finished => Len(invoked) = Len(batch)

\* C15 - no filtering or merging in enumeration: a returned listing is the
\* items of the remote folder in the order the store serves them, page
\* after page; items that share a name are all there, nothing is merged,
\* dropped or reordered.
C15_ListingIsConcatenation ==
    lstatus = "returned" =>
        /\ Len(listing) = Len(remote)
        /\ \A k \in DOMAIN remote : listing[k] = remote[k]
C15_Witness ==
    /\ lstatus = "returned"
    /\ Len(requests) > 1
    /\ \E j, k \in DOMAIN listing :
         /\ j < k
         /\ listing[j].name = listing[k].name
         /\ listing[j].id # listing[k].id

\* C16 - pagination termination: if no page request fails, every listing
\* that was started returns; and the loop stops exactly at the first
\* response without continuation token: after an answered request the loop
\* has ended if and only if that response carried no token, so no request
\* follows it and none is missing before it.
Answered ==
    /\ lpc = "request"
    /\ Len(requests') = Len(requests) + 1
    /\ lstatus' # "raised"
C16_PaginationTerminates ==
    /\ ([](lstatus # "raised")) =>
         ((lstatus = "running") ~> (lstatus = "returned"))
    /\ [][Answered =>
            ((lpc' = "idle" /\ lstatus' = "returned") <=>
             (ServePage(remote, page_token, pageSize).nextPageToken
                = NoToken))]_vars
C16_Witness ==
    /\ lstatus = "returned"
    /\ Len(requests) = MaxRemote
    /\ page_token = NoToken

\* C17 - a valid credential is a no-op path: a call that loaded a
\* credential with an access token that had not expired called neither
\* refresh nor the interactive flow, did not write the token file, left the
\* persisted credential as it was, and returned a client built on it.
LoadedValid ==
    /\ auth.called
    /\ auth.loaded # Absent
    /\ auth.loaded.token # 0
    /\ (auth.loaded.expiry = NoExpiry \/ auth.at < auth.loaded.expiry)
C17_ValidIsNoOp ==
    LoadedValid =>
        /\ auth.refreshCalls = 0
        /\ auth.flowCalls = 0
        /\ ~auth.wrote
        /\ tokenFile = auth.loaded
        /\ auth.result = "returned"
        /\ service = auth.loaded
C17_Witness ==
    /\ LoadedValid
    /\ auth.loaded.expiry # NoExpiry
    /\ auth.loaded.refresh_token
    /\ service = tokenFile

\* C18 - continuation-token chaining: the first page request of a listing
\* carries no page token, every later request carries exactly the token
\* that the response to the request before it returned, and all requests
\* of one listing carry the same query and the same field selection.
C18_TokenChaining ==
    requests # <<>> =>
        /\ requests[1].pageToken = NoToken
        /\ \A k \in 2..Len(requests) :
             requests[k].pageToken =
               ServePage(remote, requests[k - 1].pageToken,
                         pageSize).nextPageToken
        /\ \A k \in DOMAIN requests :
             /\ requests[k].q = requests[1].q
             /\ requests[k].fields = requests[1].fields
C18_Witness ==
    /\ Len(requests) >= 3
    /\ requests[2].pageToken # NoToken
    /\ requests[3].pageToken # requests[2].pageToken
    /\ lstatus = "returned"

\* C19 - duplicate names in one batch: within one download_files call an
\* item whose name an earlier item of the list already had is skipped
\* without any remote call; so at most one download is issued per
\* destination path, and a file downloaded in this call is still the
\* complete object of the item that was downloaded to it.
Fetched(k) ==
    \/ k <= Len(outcomes) /\ outcomes[k] = Downloaded
    \/ k > Len(outcomes) /\ taskCalls > 0
C19_DuplicateNames ==
    mode = "batch" =>
        /\ \A j, k \in DOMAIN invoked :
             (j < k /\ batch[j].name = batch[k].name) =>
                 /\ ~Fetched(k)
                 /\ k <= Len(outcomes) => outcomes[k] = Skipped
                 /\ k > Len(outcomes) => dpc = "check"
        /\ \A p \in Paths :
             Cardinality({k \in DOMAIN invoked :
                            invoked[k].path = p /\ Fetched(k)}) <= 1
        /\ \A k \in DOMAIN outcomes :
             outcomes[k] = Downloaded =>
                 fs[invoked[k].path] = Complete(invoked[k].id)
C19_Witness ==
    /\ mode = "batch" /\ status = "returned"
    /\ \E j, k \in DOMAIN outcomes :
         /\ j < k
         /\ batch[j].name = batch[k].name
         /\ batch[j].id # batch[k].id
         /\ outcomes[j] = Downloaded
         /\ outcomes[k] = Skipped
         /\ fs[invoked[k].path] = Complete(batch[j].id)

====
